---- MODULE Spec2Model ----
(***************************************************************************)
(* A model of the beats19182 scripts:                                      *)
(*   scripts/rename_with_proper_tags.py  (Normalizer, Matcher, Renamer)    *)
(*   scripts/upload_to_service.py        (Auth Client, Session Store,      *)
(*                                        Upload Client)                   *)
(* A string is a sequence of one-character strings.                        *)
(***************************************************************************)
EXTENDS Integers, Sequences, FiniteSets, TLC

VARIABLES
    \* ---- rename_with_proper_tags.py: rename_files ----
    dir,                \* os.listdir(input_directory): sequence of [name, is_file]
    name_tags_mapping,  \* the Tag Index: sequence of [key, tags], insertion order
    pos,                \* number of directory entries the for loop has consumed
    rpc,                \* position in rename_files: "idle", "loop", "done"
    filename,           \* locals of the last iteration of the loop
    base_name,
    extension,
    tags,
    new_filename,
    outcome,            \* last iteration: "none", "skipped", "copied", "error"
    attempted,          \* positions of the entries for which the try block ran
    outputs,            \* files written under output_directory: set of [name, src]
    same_dir,           \* output_directory is the input directory
    source,             \* files of the input directory: set of [name, src], src
                        \* the file whose original bytes the file holds
    rename_count,
    error_count,
    \* ---- upload_to_service.py: main, login, upload_directory ----
    args,               \* [load_session, session_token, credentials, save_session]
    session_file,       \* the .auth_session file: [state, cookies]
    cookies,            \* session.cookies: sequence of [name, value]
    token,
    upc,                \* position in main / login / upload_directory
    requests,           \* the HTTP requests sent so far, in order
    csrf_status,        \* status of the CSRF response, 0 when none was received
    direct_result,      \* what login_direct returned, Unset before it returns
    login_result,       \* what login returned, Unset before it returns
    saved,              \* the session was written to the session file
    walk,               \* file names os.walk yields under the directory
    audio_files,
    upos,               \* number of audio_files the upload loop has consumed
    success_count,
    upload_error_count, \* error_count of upload_directory
    last_upload,        \* what the last upload_file call met: [kind, status, body]
    last_counted,       \* how upload_directory counted it: "success", "error"
    upload_tags,        \* tags of the last upload_file call
    attempts,           \* indices of audio_files passed to upload_file, in order
    ok_responses,       \* upload responses with status 200 or 201 so far
    non2xx_responses,   \* upload responses with a status outside 200..299 so far
    returned            \* the tuple upload_directory returned, <<>> before

rvars == <<dir, name_tags_mapping, pos, rpc, filename, base_name, extension,
           tags, new_filename, outcome, attempted, outputs, same_dir, source,
           rename_count, error_count>>

uvars == <<args, session_file, cookies, token, upc, requests, csrf_status,
           direct_result, login_result, saved, walk, audio_files, upos,
           success_count, upload_error_count, last_upload, last_counted,
           upload_tags, attempts, ok_responses, non2xx_responses, returned>>

vars == <<rvars, uvars>>

-----------------------------------------------------------------------------
(* Python values *)

None == "None"
Unset == "Unset"        \* a result that has not been produced yet

\* the truth value Python gives a token (None and '' are false)
Truthy(v) == v \notin {None, ""}

NoUpload == [kind |-> "none", status |-> 0, body |-> "none"]

-----------------------------------------------------------------------------
(* Strings *)

UpperChars == <<"A","B","C","D","E","F","G","H","I","J","K","L","M",
                "N","O","P","Q","R","S","T","U","V","W","X","Y","Z">>
LowerChars == <<"a","b","c","d","e","f","g","h","i","j","k","l","m",
                "n","o","p","q","r","s","t","u","v","w","x","y","z">>

\* str.lower() on one character
LowerChar(c) ==
    IF \E i \in DOMAIN UpperChars : UpperChars[i] = c
    THEN LowerChars[CHOOSE i \in DOMAIN UpperChars : UpperChars[i] = c]
    ELSE c

\* str.lower()
StrLower(s) == [i \in 1..Len(s) |-> LowerChar(s[i])]

\* characters matched by \s and removed by str.strip()
Whitespace == {" "}

\* characters matched by \d
Digits == {"0","1","2","3","4","5","6","7","8","9"}

MinOf(S) == CHOOSE x \in S : \A y \in S : x <= y
MaxOf(S) == CHOOSE x \in S : \A y \in S : y <= x

\* s[i:].startswith(lit), i one-based
StartsWithAt(s, i, lit) ==
    /\ i >= 1
    /\ i + Len(lit) - 1 <= Len(s)
    /\ \A k \in 1..Len(lit) : s[i + k - 1] = lit[k]

\* s.endswith(lit)
EndsWith(s, lit) ==
    /\ Len(lit) <= Len(s)
    /\ SubSeq(s, Len(s) - Len(lit) + 1, Len(s)) = lit

\* Python's `a in b` on strings
IsSubstring(a, b) ==
    \E i \in 0..(Len(b) - Len(a)) : SubSeq(b, i + 1, i + Len(a)) = a

\* the first index j >= i with s[j] not in S, Len(s)+1 when there is none
SkipSet(s, i, S) ==
    MinOf({j \in i..(Len(s) + 1) : j = Len(s) + 1 \/ s[j] \notin S})

\* str.strip()
Strip(s) ==
    LET keep == {i \in 1..Len(s) : s[i] \notin Whitespace}
    IN  IF keep = {} THEN <<>> ELSE SubSeq(s, MinOf(keep), MaxOf(keep))

\* os.path.splitext on a name without directory separator: the extension
\* starts at the last dot, unless only dots precede it
Splitext(p) ==
    LET dots == {i \in 1..Len(p) : p[i] = "."}
    IN  IF dots = {} THEN <<p, <<>>>>
        ELSE LET d == MaxOf(dots)
             IN  IF \E k \in 1..(d - 1) : p[k] # "."
                 THEN <<SubSeq(p, 1, d - 1), SubSeq(p, d, Len(p))>>
                 ELSE <<p, <<>>>>

-----------------------------------------------------------------------------
(* rename_files: the patterns *)

prefix_pattern == <<"m","a","t","e","o","_","1","9","1","8","2"," ","-"," ">>

\* re.sub(prefix_pattern, '', s, flags=re.IGNORECASE): anchored at the start
RemovePrefix(s) ==
    IF /\ Len(s) >= Len(prefix_pattern)
       /\ StrLower(SubSeq(s, 1, Len(prefix_pattern))) = prefix_pattern
    THEN SubSeq(s, Len(prefix_pattern) + 1, Len(s))
    ELSE s

\* r' \[\d+ bpm\]' matched at i: index of the match's last character, 0 if none
BpmMatchEnd(s, i) ==
    IF StartsWithAt(s, i, <<" ", "[">>)
    THEN LET j == SkipSet(s, i + 2, Digits)
         IN  IF j > i + 2 /\ StartsWithAt(s, j, <<" ","b","p","m","]">>)
             THEN j + 4 ELSE 0
    ELSE 0

KeyLetters == {"A","B","C","D","E","F","G"}
Accidentals == {"#", "b"}
KeyQualifiers == { <<"M","a","j","o","r">>, <<"M","i","n","o","r">>,
                   <<"M","a","j">>, <<"M","i","n">> }

\* (#|b)? at k: the index after it
AfterAccidental(s, k) ==
    IF k <= Len(s) /\ s[k] \in Accidentals THEN k + 1 ELSE k

\* (/[A-G](#|b)?)? at k: the index after it
AfterAltKey(s, k) ==
    IF k + 1 <= Len(s) /\ s[k] = "/" /\ s[k + 1] \in KeyLetters
    THEN AfterAccidental(s, k + 2) ELSE k

\* r' \[[A-G](#|b)?(/[A-G](#|b)?)?\s*(Major|Minor|Maj|Min)\]' matched at i
KeyMatchEnd(s, i) ==
    IF /\ StartsWithAt(s, i, <<" ", "[">>)
       /\ i + 2 <= Len(s)
       /\ s[i + 2] \in KeyLetters
    THEN LET k == SkipSet(s, AfterAltKey(s, AfterAccidental(s, i + 3)), Whitespace)
             ends == {k + Len(q) : q \in {r \in KeyQualifiers :
                                            StartsWithAt(s, k, r \o <<"]">>)}}
         IN  IF ends = {} THEN 0 ELSE MinOf(ends)
    ELSE 0

\* r' \[[^\]]+\]' matched at i
AnyMatchEnd(s, i) ==
    IF StartsWithAt(s, i, <<" ", "[">>)
    THEN LET close == {j \in (i + 2)..Len(s) : s[j] = "]"}
         IN  IF close # {} /\ MinOf(close) > i + 2 THEN MinOf(close) ELSE 0
    ELSE 0

MatchEnd(p, s, i) ==
    CASE p = "bpm" -> BpmMatchEnd(s, i)
      [] p = "key" -> KeyMatchEnd(s, i)
      [] p = "any" -> AnyMatchEnd(s, i)

\* re.sub(p, '', s): the leftmost non-overlapping matches are removed
RECURSIVE ReSubFrom(_, _, _)
ReSubFrom(p, s, i) ==
    IF i > Len(s) THEN <<>>
    ELSE LET e == MatchEnd(p, s, i)
         IN  IF e > 0 THEN ReSubFrom(p, s, e + 1)
             ELSE <<s[i]>> \o ReSubFrom(p, s, i + 1)

ReSub(p, s) == ReSubFrom(p, s, 1)

-----------------------------------------------------------------------------
(* load_name_tags_mapping *)

\* the insertion-ordered dict after `name_to_tags[k] = v`: an existing key keeps
\* its position and takes the new value, a new key is appended
DictSet(m, k, v) ==
    IF \E i \in 1..Len(m) : m[i].key = k
    THEN [i \in 1..Len(m) |-> IF m[i].key = k THEN [key |-> k, tags |-> v] ELSE m[i]]
    ELSE Append(m, [key |-> k, tags |-> v])

\* the loop over the JSON array `data` of [filename, tags] items, items n+1.. left
RECURSIVE LoadFrom(_, _, _)
LoadFrom(data, n, m) ==
    IF n >= Len(data) THEN m
    ELSE LET item == data[n + 1]
             k == StrLower(Strip(item.filename))
         IN  LoadFrom(data, n + 1, IF k # <<>> THEN DictSet(m, k, item.tags) ELSE m)

load_name_tags_mapping(data) == LoadFrom(data, 0, <<>>)

-----------------------------------------------------------------------------
(* rename_files: one file *)

rename_audio_extensions ==
    { <<".","m","p","3">>, <<".","w","a","v">>, <<".","m","4","a">> }

\* filename.lower().endswith(audio_extensions)
IsRenameAudio(f) == \E x \in rename_audio_extensions : EndsWith(StrLower(f), x)

\* the four re.sub calls, os.path.splitext and strip
Normalize(f) ==
    LET clean == ReSub("any", ReSub("key", ReSub("bpm", RemovePrefix(f))))
        sp == Splitext(clean)
    IN  [base_name |-> Strip(sp[1]), extension |-> sp[2]]

\* the Matcher's fallback: the keys, by position, that the loop would accept
PartialMatches(b, m) ==
    {i \in 1..Len(m) : \/ IsSubstring(StrLower(m[i].key), StrLower(b))
                       \/ IsSubstring(StrLower(b), StrLower(m[i].key))}

\* a fallback that keeps scanning and so returns the last accepted key
MatchTagsLastWins(b, m) ==
    IF \E i \in 1..Len(m) : m[i].key = StrLower(b)
    THEN m[CHOOSE i \in 1..Len(m) : m[i].key = StrLower(b)].tags
    ELSE IF PartialMatches(b, m) = {} THEN <<>>
         ELSE m[MaxOf(PartialMatches(b, m))].tags

\* the Matcher: direct lookup of base_name.lower(), else the first key in
\* dict order that contains the name or is contained in it, else []
MatchTags(b, m) ==
    IF \E i \in 1..Len(m) : m[i].key = StrLower(b)
    THEN m[CHOOSE i \in 1..Len(m) : m[i].key = StrLower(b)].tags
    ELSE IF PartialMatches(b, m) = {} THEN <<>>
         ELSE m[MinOf(PartialMatches(b, m))].tags

\* ' '.join(f"[{tag}]" for tag in tags)
RECURSIVE TagString(_)
TagString(ts) ==
    IF ts = <<>> THEN <<>>
    ELSE IF Len(ts) = 1 THEN <<"[">> \o ts[1] \o <<"]">>
    ELSE <<"[">> \o ts[1] \o <<"]", " ">> \o TagString(Tail(ts))

\* a composition that embeds the tags in reverse order
RECURSIVE TagStringReversed(_)
TagStringReversed(ts) ==
    IF ts = <<>> THEN <<>>
    ELSE IF Len(ts) = 1 THEN <<"[">> \o ts[1] \o <<"]">>
    ELSE TagStringReversed(Tail(ts)) \o <<" ", "[">> \o ts[1] \o <<"]">>

ComposeReversed(b, ts, x) ==
    IF ts # <<>> THEN b \o <<" ">> \o TagStringReversed(ts) \o x ELSE b \o x

\* new_filename
Compose(b, ts, x) ==
    IF ts # <<>> THEN b \o <<" ">> \o TagString(ts) \o x ELSE b \o x

-----------------------------------------------------------------------------
(* upload_file: the tags sent with a file *)

\* re.findall(r'\[([^\]]+)\]', filename) from index i on
RECURSIVE FindAllFrom(_, _)
FindAllFrom(s, i) ==
    IF i > Len(s) THEN <<>>
    ELSE IF s[i] = "["
         THEN LET close == {j \in (i + 1)..Len(s) : s[j] = "]"}
              IN  IF close # {} /\ MinOf(close) > i + 1
                  THEN <<SubSeq(s, i + 1, MinOf(close) - 1)>>
                           \o FindAllFrom(s, MinOf(close) + 1)
                  ELSE FindAllFrom(s, i + 1)
         ELSE FindAllFrom(s, i + 1)

ExtractTags(f) == FindAllFrom(f, 1)

-----------------------------------------------------------------------------
(* Inputs of the rename tool *)

MaxAnnotations == 2     \* bracketed groups in one generated file name
MaxItems == 2           \* items of the tags file
MaxFiles == 3           \* entries of a listed source directory

RECURSIVE Flatten(_)
Flatten(ss) == IF ss = <<>> THEN <<>> ELSE ss[1] \o Flatten(Tail(ss))

SeqsUpTo(S, n) == UNION {[1..k -> S] : k \in 0..n}

PrefixVariants ==
    { <<>>,
      prefix_pattern,
      <<"M","A","T","E","O","_","1","9","1","8","2"," ","-"," ">> }

Titles == { <<"I","n","t","r","o">>, <<"I","n">> }

Annotations ==
    { <<" ","[","1","2"," ","b","p","m","]">>,
      <<" ","[","C"," ","M","a","j","o","r","]">>,
      <<" ","[","D","a","r","k","]">>,
      <<"[","S","a","d","]">> }

AudioSuffixes == { <<".","m","p","3">>, <<".","W","A","V">> }

\* the file names the Normalizer is exercised on: prefix, title, annotations,
\* extension
Shapes ==
    { [prefix |-> pv, title |-> t, annotations |-> al, extension |-> x,
       name |-> pv \o t \o Flatten(al) \o x] :
        pv \in PrefixVariants, t \in Titles,
        al \in SeqsUpTo(Annotations, MaxAnnotations), x \in AudioSuffixes }

FileNames == {sh.name : sh \in Shapes}

Dark == <<"D","a","r","k">>
Sad == <<"S","a","d">>

\* items of the tags file (the JSON array read by load_name_tags_mapping)
Items ==
    { [filename |-> <<"I","n","t","r","o">>, tags |-> <<Dark>>],
      [filename |-> <<"i","n">>, tags |-> <<Sad, Dark>>],
      [filename |-> <<" ","T","r","o">>, tags |-> <<Sad>>],
      [filename |-> <<"I","N">>, tags |-> <<>>] }

TagFiles == SeqsUpTo(Items, MaxItems)

\* a source directory with several entries: two files that normalize to the
\* same name, a third audio file, a text file and a sub-directory
ListedEntries ==
    { [name |-> prefix_pattern \o <<"I","n","t","r","o"," ","[","1","2"," ","b","p","m","]",".","m","p","3">>,
       is_file |-> TRUE],
      [name |-> <<"I","n","t","r","o",".","m","p","3">>, is_file |-> TRUE],
      [name |-> <<"I","n",".","M","4","A">>, is_file |-> TRUE],
      [name |-> <<"I","n",".","t","x","t">>, is_file |-> TRUE],
      [name |-> <<"d",".","m","p","3">>, is_file |-> FALSE] }

\* os.listdir: the names of a directory are distinct
Listings ==
    {l \in SeqsUpTo(ListedEntries, MaxFiles) :
        \A i, j \in 1..Len(l) : i # j => l[i].name # l[j].name}

Directories ==
    Listings \cup { <<[name |-> f, is_file |-> TRUE]>> : f \in FileNames }

-----------------------------------------------------------------------------
(* rename_files *)

\* the upload tool is not running
UploadIdle ==
    /\ args = [load_session |-> FALSE, session_token |-> None,
               credentials |-> FALSE, save_session |-> FALSE]
    /\ session_file = [state |-> "missing", cookies |-> <<>>]
    /\ cookies = <<>>
    /\ token = None
    /\ upc = "idle"
    /\ requests = <<>>
    /\ csrf_status = 0
    /\ direct_result = Unset
    /\ login_result = Unset
    /\ saved = FALSE
    /\ walk = <<>>
    /\ audio_files = <<>>
    /\ upos = 0
    /\ success_count = 0
    /\ upload_error_count = 0
    /\ last_upload = NoUpload
    /\ last_counted = "none"
    /\ upload_tags = <<>>
    /\ attempts = <<>>
    /\ ok_responses = 0
    /\ non2xx_responses = 0
    /\ returned = <<>>

InitRename ==
    /\ UploadIdle
    /\ dir \in Directories
    /\ name_tags_mapping \in {load_name_tags_mapping(d) : d \in TagFiles}
    /\ name_tags_mapping # <<>>      \* main returns on an empty mapping
    /\ pos = 0
    /\ rpc = "loop"
    /\ filename = <<>>
    /\ base_name = <<>>
    /\ extension = <<>>
    /\ tags = <<>>
    /\ new_filename = <<>>
    /\ outcome = "none"
    /\ attempted = {}
    /\ outputs = {}
    \* --output-directory may name the input directory; the default is
    \* input_directory + "_processed"
    /\ same_dir \in BOOLEAN
    /\ same_dir => dir \in Listings
    /\ source = {[name |-> dir[i].name, src |-> dir[i].name] :
                    i \in {j \in 1..Len(dir) : dir[j].is_file}}
    /\ rename_count = 0
    /\ error_count = 0

\* the entry is not a file or not an audio file: continue
SkipEntry ==
    /\ rpc = "loop"
    /\ pos < Len(dir)
    /\ ~dir[pos + 1].is_file \/ ~IsRenameAudio(dir[pos + 1].name)
    /\ pos' = pos + 1
    /\ filename' = dir[pos + 1].name
    /\ outcome' = "skipped"
    /\ UNCHANGED <<dir, name_tags_mapping, rpc, base_name, extension, tags,
                   new_filename, attempted, outputs, same_dir, source,
                   rename_count, error_count>>
    /\ UNCHANGED uvars

\* shutil.copy2(input_path, output_path): the destination holds the source's
\* bytes under the new name, replacing a file of that name
CopyTo(out, src, dst) ==
    {o \in out : o.name # dst} \cup {[name |-> dst, src |-> src]}

\* the file whose original bytes the file named f of the directory holds
BytesOf(files, f) == (CHOOSE o \in files : o.name = f).src

\* shutil.copy2 raises SameFileError: input_path and output_path are one file
SameFile(sd, f, nf) == sd /\ f = nf

\* an except block that ends the loop
AfterFileErrorStop == "done"

\* where rename_files is after the except block of one file: the loop goes on
AfterFileError == "loop"

\* the try block for an audio file; copy_ok = FALSE: shutil.copy2 raises
RenameEntry ==
    /\ rpc = "loop"
    /\ pos < Len(dir)
    /\ dir[pos + 1].is_file /\ IsRenameAudio(dir[pos + 1].name)
    /\ pos' = pos + 1
    /\ filename' = dir[pos + 1].name
    /\ \E n \in {Normalize(filename')} :
          /\ base_name' = n.base_name
          /\ extension' = n.extension
    /\ tags' = MatchTags(base_name', name_tags_mapping)
    /\ new_filename' = Compose(base_name', tags', extension')
    /\ attempted' = attempted \cup {pos + 1}
    /\ \E copy_ok \in BOOLEAN :
          IF copy_ok /\ ~SameFile(same_dir, filename', new_filename')
          THEN /\ outputs' = CopyTo(outputs, filename', new_filename')
               /\ source' = IF same_dir
                            THEN CopyTo(source, BytesOf(source, filename'),
                                        new_filename')
                            ELSE source
               /\ rename_count' = rename_count + 1
               /\ outcome' = "copied"
               /\ UNCHANGED <<error_count, rpc>>
          ELSE /\ error_count' = error_count + 1
               /\ outcome' = "error"
               /\ rpc' = AfterFileError
               /\ UNCHANGED <<outputs, source, rename_count>>
    /\ UNCHANGED <<dir, name_tags_mapping, same_dir>>
    /\ UNCHANGED uvars

\* the loop is over: the summary is printed
FinishRename ==
    /\ rpc = "loop"
    /\ pos = Len(dir)
    /\ rpc' = "done"
    /\ UNCHANGED <<dir, name_tags_mapping, pos, filename, base_name, extension,
                   tags, new_filename, outcome, attempted, outputs, same_dir,
                   source, rename_count, error_count>>
    /\ UNCHANGED uvars

NextRename ==
    \/ SkipEntry
    \/ RenameEntry
    \/ FinishRename

SpecRename == InitRename /\ [][NextRename]_vars

-----------------------------------------------------------------------------
(* upload_to_service.py: cookies *)

\* 'next-auth.session-token', the marker looked for in cookie names
SessionMarker == <<"n","e","x","t","-","a","u","t","h",".","s","e","s","s","i","o","n","-","t","o","k","e","n">>
SecureSessionCookie == <<"_","_","S","e","c","u","r","e","-","n","e","x","t","-","a","u","t","h",".","s","e","s","s","i","o","n","-","t","o","k","e","n">>
CsrfCookie == <<"n","e","x","t","-","a","u","t","h",".","c","s","r","f","-","t","o","k","e","n">>

\* 'next-auth.session-token' in cookie_name
HasMarker(name) == IsSubstring(SessionMarker, name)

\* session.cookies.set(name, value)
CookieSet(jar, name, value) ==
    IF \E i \in 1..Len(jar) : jar[i].name = name
    THEN [i \in 1..Len(jar) |->
             IF jar[i].name = name THEN [name |-> name, value |-> value] ELSE jar[i]]
    ELSE Append(jar, [name |-> name, value |-> value])

\* session.cookies.update(other), also the Set-Cookie headers of a response
RECURSIVE JarUpdate(_, _)
JarUpdate(jar, other) ==
    IF other = <<>> THEN jar
    ELSE JarUpdate(CookieSet(jar, other[1].name, other[1].value), Tail(other))

\* the loop over session.cookies.items(): the value of the first cookie whose
\* name contains the marker, None when there is none
SessionCookie(jar) ==
    IF \E i \in 1..Len(jar) : HasMarker(jar[i].name)
    THEN jar[MinOf({i \in 1..Len(jar) : HasMarker(jar[i].name)})].value
    ELSE None

-----------------------------------------------------------------------------
(* Inputs of the upload tool *)

MaxMainWalk == 2        \* files under the directory in a run of main
MaxWalk == 9            \* files under the directory in a call of upload_directory

\* what the server may answer to the login requests
LoginStatuses == {200, 401}

\* cookies a login response may set
CookieEffects ==
    { <<>>,
      <<[name |-> SessionMarker, value |-> "tok"]>>,
      <<[name |-> SecureSessionCookie, value |-> ""]>> }

CsrfOutcomes ==
    {[kind |-> "exception", status |-> 0, body |-> "none", set_cookies |-> <<>>]}
    \cup [kind : {"response"}, status : LoginStatuses,
          body : {"token", "no_token", "not_json"},
          set_cookies : {<<>>, <<[name |-> CsrfCookie, value |-> "c"]>>}]

PostOutcomes ==
    {[kind |-> "exception", status |-> 0, set_cookies |-> <<>>]}
    \cup [kind : {"response"}, status : LoginStatuses, set_cookies : CookieEffects]

\* what one upload_file call may meet: open() raises, session.post raises, or
\* a response; a 200/201 body is a non-empty JSON object, an empty one, or no
\* JSON at all
UploadOutcomes ==
    { [kind |-> "open_error", status |-> 0, body |-> "none"],
      [kind |-> "network_error", status |-> 0, body |-> "none"],
      [kind |-> "response", status |-> 204, body |-> "none"],
      [kind |-> "response", status |-> 500, body |-> "none"] }
    \cup [kind : {"response"}, status : {200, 201},
          body : {"object", "empty", "not_json"}]

SessionFiles ==
    { [state |-> "missing", cookies |-> <<>>],
      [state |-> "unreadable", cookies |-> <<>>],
      [state |-> "corrupt", cookies |-> <<>>],
      [state |-> "ok", cookies |-> <<>>],
      [state |-> "ok", cookies |-> <<[name |-> CsrfCookie, value |-> "c"]>>],
      [state |-> "ok", cookies |-> <<[name |-> CsrfCookie, value |-> "c"],
                                     [name |-> SecureSessionCookie, value |-> "stored"]>>] }

\* the i-th file name os.walk yields: the second is no audio file
WalkName(i) ==
    IF i = 2 THEN <<"I","n",".","t","x","t">>
    ELSE IF i % 2 = 1
         THEN <<"I","n"," ","[","D","a","r","k","]"," ","[","S","a","d","]",".","m","p","3">>
         ELSE <<"I","n",".","F","L","A","C">>

Walk(n) == [i \in 1..n |-> WalkName(i)]

Arguments ==
    [load_session : BOOLEAN, session_token : {None, "argtok"},
     credentials : BOOLEAN, save_session : BOOLEAN]

-----------------------------------------------------------------------------
(* upload_to_service.py: main up to the uploads *)

\* the rename tool is not running
RenameIdle ==
    /\ dir = <<>>
    /\ name_tags_mapping = <<>>
    /\ pos = 0
    /\ rpc = "idle"
    /\ filename = <<>>
    /\ base_name = <<>>
    /\ extension = <<>>
    /\ tags = <<>>
    /\ new_filename = <<>>
    /\ outcome = "none"
    /\ attempted = {}
    /\ outputs = {}
    /\ same_dir = FALSE
    /\ source = {}
    /\ rename_count = 0
    /\ error_count = 0

\* main after the arguments are parsed and the directory was found
InitMain ==
    /\ RenameIdle
    /\ args \in Arguments
    /\ session_file \in SessionFiles
    /\ cookies = <<>>
    /\ token = None
    /\ upc = "load"
    /\ requests = <<>>
    /\ csrf_status = 0
    /\ direct_result = Unset
    /\ login_result = Unset
    /\ saved = FALSE
    /\ walk \in {Walk(n) : n \in 0..MaxMainWalk}
    /\ audio_files = <<>>
    /\ upos = 0
    /\ success_count = 0
    /\ upload_error_count = 0
    /\ last_upload = NoUpload
    /\ last_counted = "none"
    /\ upload_tags = <<>>
    /\ attempts = <<>>
    /\ ok_responses = 0
    /\ non2xx_responses = 0
    /\ returned = <<>>

\* a load that lets the exception of open or pickle.load leave main
LoadSessionUnguarded(load, file, jar) ==
    IF load /\ file.state # "missing"
    THEN IF file.state \in {"unreadable", "corrupt"}
         THEN [cookies |-> jar, token |-> None, upc |-> "crashed"]
         ELSE [cookies |-> JarUpdate(jar, file.cookies),
               token |-> SessionCookie(JarUpdate(jar, file.cookies)),
               upc |-> "auth"]
    ELSE [cookies |-> jar, token |-> None, upc |-> "auth"]

\* the --load-session block: with the flag and an existing file, open and
\* unpickle it, merge its cookies and take the first session cookie as token;
\* an exception of open or pickle.load is caught and printed
LoadSessionResult(load, file, jar) ==
    IF load /\ file.state # "missing"
    THEN IF file.state \in {"unreadable", "corrupt"}
         THEN [cookies |-> jar, token |-> None, upc |-> "auth"]
         ELSE [cookies |-> JarUpdate(jar, file.cookies),
               token |-> SessionCookie(JarUpdate(jar, file.cookies)),
               upc |-> "auth"]
    ELSE [cookies |-> jar, token |-> None, upc |-> "auth"]

LoadSession ==
    /\ upc = "load"
    /\ \E r \in {LoadSessionResult(args.load_session, session_file, cookies)} :
          /\ cookies' = r.cookies
          /\ token' = r.token
          /\ upc' = r.upc
    /\ UNCHANGED <<args, session_file, requests, csrf_status, direct_result,
                   login_result, saved, walk, audio_files, upos, success_count,
                   upload_error_count, last_upload, last_counted, upload_tags,
                   attempts, ok_responses, non2xx_responses, returned>>
    /\ UNCHANGED rvars

\* `if not token:` and its three branches
SelectAuth ==
    /\ upc = "auth"
    /\ IF Truthy(token)
       THEN upc' = "save" /\ UNCHANGED <<token, cookies>>
       ELSE IF Truthy(args.session_token)
            THEN /\ token' = args.session_token
                 /\ cookies' = CookieSet(cookies, SessionMarker, args.session_token)
                 /\ upc' = "save"
            ELSE IF args.credentials
                 THEN upc' = "login_csrf" /\ UNCHANGED <<token, cookies>>
                 ELSE upc' = "exit_usage" /\ UNCHANGED <<token, cookies>>
    /\ UNCHANGED <<args, session_file, requests, csrf_status, direct_result,
                   login_result, saved, walk, audio_files, upos, success_count,
                   upload_error_count, last_upload, last_counted, upload_tags,
                   attempts, ok_responses, non2xx_responses, returned>>
    /\ UNCHANGED rvars

-----------------------------------------------------------------------------
(* login, login_nextauth, login_direct *)

\* a CSRF step that goes on whatever the status is
CsrfProceedsAnyStatus(r) ==
    r.kind = "response" /\ r.body = "token"

\* login_nextauth goes on to the sign-in request: the CSRF response has status
\* 200 and its JSON body holds a csrfToken
CsrfProceeds(r) ==
    r.kind = "response" /\ r.status = 200 /\ r.body = "token"

\* a main that goes on without a token
AfterLoginAlways(t) == "save"

\* main after login returned t: `if not token: ... return`
AfterLogin(t) == IF Truthy(t) THEN "save" ELSE "exit_auth_failed"

\* session.get(csrf_url) and the checks on its response
CsrfFetch ==
    /\ upc = "login_csrf"
    /\ requests' = Append(requests, "csrf")
    /\ \E r \in CsrfOutcomes :
          /\ csrf_status' = r.status
          /\ cookies' = JarUpdate(cookies, r.set_cookies)
          /\ upc' = IF CsrfProceeds(r) THEN "login_signin" ELSE "login_direct"
    /\ UNCHANGED <<args, session_file, token, direct_result, login_result,
                   saved, walk, audio_files, upos, success_count,
                   upload_error_count, last_upload, last_counted, upload_tags,
                   attempts, ok_responses, non2xx_responses, returned>>
    /\ UNCHANGED rvars

\* session.post(signin_url)
Signin ==
    /\ upc = "login_signin"
    /\ requests' = Append(requests, "signin")
    /\ \E r \in PostOutcomes :
          /\ cookies' = JarUpdate(cookies, r.set_cookies)
          /\ upc' = IF r.kind = "response" /\ r.status = 200
                    THEN "login_callback" ELSE "login_direct"
    /\ UNCHANGED <<args, session_file, token, csrf_status, direct_result,
                   login_result, saved, walk, audio_files, upos, success_count,
                   upload_error_count, last_upload, last_counted, upload_tags,
                   attempts, ok_responses, non2xx_responses, returned>>
    /\ UNCHANGED rvars

\* session.post(callback_url) of login_nextauth; a token ends login
Callback ==
    /\ upc = "login_callback"
    /\ requests' = Append(requests, "callback")
    /\ \E r \in PostOutcomes :
          /\ cookies' = JarUpdate(cookies, r.set_cookies)
          /\ \E t \in {IF r.kind = "response" /\ r.status = 200
                       THEN SessionCookie(cookies') ELSE None} :
                IF Truthy(t)
                THEN /\ login_result' = t
                     /\ token' = t
                     /\ upc' = AfterLogin(t)
                ELSE /\ upc' = "login_direct"
                     /\ UNCHANGED <<login_result, token>>
    /\ UNCHANGED <<args, session_file, csrf_status, direct_result, saved, walk,
                   audio_files, upos, success_count, upload_error_count,
                   last_upload, last_counted, upload_tags, attempts,
                   ok_responses, non2xx_responses, returned>>
    /\ UNCHANGED rvars

\* login_direct: session.post(auth_url), then the cookie jar is searched; its
\* result is login's result
Direct ==
    /\ upc = "login_direct"
    /\ requests' = Append(requests, "direct")
    /\ \E r \in PostOutcomes :
          /\ cookies' = JarUpdate(cookies, r.set_cookies)
          /\ direct_result' = IF r.kind = "response"
                              THEN SessionCookie(cookies') ELSE None
          /\ login_result' = direct_result'
          /\ token' = direct_result'
          /\ upc' = AfterLogin(direct_result')
    /\ UNCHANGED <<args, session_file, csrf_status, saved, walk, audio_files,
                   upos, success_count, upload_error_count, last_upload,
                   last_counted, upload_tags, attempts, ok_responses,
                   non2xx_responses, returned>>
    /\ UNCHANGED rvars

\* the --save-session block; write_ok = FALSE: open or pickle.dump raises
SaveSession ==
    /\ upc = "save"
    /\ upc' = "upload"
    /\ IF args.save_session
       THEN \E write_ok \in BOOLEAN :
               IF write_ok
               THEN /\ saved' = TRUE
                    /\ session_file' = [state |-> "ok", cookies |-> cookies]
               ELSE UNCHANGED <<saved, session_file>>
       ELSE UNCHANGED <<saved, session_file>>
    /\ UNCHANGED <<args, cookies, token, requests, csrf_status, direct_result,
                   login_result, walk, audio_files, upos, success_count,
                   upload_error_count, last_upload, last_counted, upload_tags,
                   attempts, ok_responses, non2xx_responses, returned>>
    /\ UNCHANGED rvars

-----------------------------------------------------------------------------
(* upload_directory, upload_file *)

upload_audio_extensions ==
    { <<".","m","p","3">>, <<".","w","a","v">>, <<".","o","g","g">>,
      <<".","m","4","a">>, <<".","f","l","a","c">>, <<".","a","a","c">> }

\* any(file.lower().endswith(ext) for ext in audio_extensions)
IsUploadAudio(f) == \E x \in upload_audio_extensions : EndsWith(StrLower(f), x)

\* upload_directory up to the upload loop: the audio files of the walk
Discover ==
    /\ upc = "upload"
    /\ audio_files' = SelectSeq(walk, IsUploadAudio)
    /\ upos' = 0
    /\ success_count' = 0
    /\ upload_error_count' = 0
    /\ upc' = "uploading"
    /\ UNCHANGED <<args, session_file, cookies, token, requests, csrf_status,
                   direct_result, login_result, saved, walk, last_upload,
                   last_counted, upload_tags, attempts, ok_responses,
                   non2xx_responses, returned>>
    /\ UNCHANGED rvars

\* what upload_file returns: response.json() for a 200 or 201, None otherwise
\* and when anything raised
UploadResult(o) ==
    IF o.kind = "response" /\ o.status \in {200, 201} /\ o.body # "not_json"
    THEN o.body ELSE None

\* `if result:` in upload_directory: None and an empty JSON value are false
ResultTruthy(result) == result = "object"

\* one iteration of the upload loop
UploadFile ==
    /\ upc = "uploading"
    /\ upos < Len(audio_files)
    /\ upos' = upos + 1
    /\ attempts' = Append(attempts, upos + 1)
    /\ \E o \in UploadOutcomes :
          /\ last_upload' = o
          /\ upload_tags' = IF o.kind = "open_error" THEN <<>>
                            ELSE ExtractTags(audio_files[upos + 1])
          /\ requests' = IF o.kind = "open_error" THEN requests
                         ELSE Append(requests, "upload")
          /\ ok_responses' = ok_responses +
                 (IF o.kind = "response" /\ o.status \in {200, 201} THEN 1 ELSE 0)
          /\ non2xx_responses' = non2xx_responses +
                 (IF o.kind = "response" /\ o.status \notin 200..299 THEN 1 ELSE 0)
          /\ IF ResultTruthy(UploadResult(o))
             THEN /\ success_count' = success_count + 1
                  /\ last_counted' = "success"
                  /\ UNCHANGED upload_error_count
             ELSE /\ upload_error_count' = upload_error_count + 1
                  /\ last_counted' = "error"
                  /\ UNCHANGED success_count
    /\ UNCHANGED <<args, session_file, cookies, token, upc, csrf_status,
                   direct_result, login_result, saved, walk, audio_files,
                   returned>>
    /\ UNCHANGED rvars

\* return success_count, error_count
FinishUpload ==
    /\ upc = "uploading"
    /\ upos = Len(audio_files)
    /\ returned' = <<success_count, upload_error_count>>
    /\ upc' = "done"
    /\ UNCHANGED <<args, session_file, cookies, token, requests, csrf_status,
                   direct_result, login_result, saved, walk, audio_files, upos,
                   success_count, upload_error_count, last_upload, last_counted,
                   upload_tags, attempts, ok_responses, non2xx_responses>>
    /\ UNCHANGED rvars

NextMain ==
    \/ LoadSession
    \/ SelectAuth
    \/ CsrfFetch
    \/ Signin
    \/ Callback
    \/ Direct
    \/ SaveSession
    \/ Discover
    \/ UploadFile
    \/ FinishUpload

SpecUpload == InitMain /\ [][NextMain]_vars

\* upload_directory called on a directory, with a session that is logged in
InitBatch ==
    /\ RenameIdle
    /\ args = [load_session |-> FALSE, session_token |-> "argtok",
               credentials |-> FALSE, save_session |-> FALSE]
    /\ session_file = [state |-> "missing", cookies |-> <<>>]
    /\ cookies = <<[name |-> SessionMarker, value |-> "argtok"]>>
    /\ token = "argtok"
    /\ upc = "upload"
    /\ requests = <<>>
    /\ csrf_status = 0
    /\ direct_result = Unset
    /\ login_result = Unset
    /\ saved = FALSE
    /\ walk \in {Walk(n) : n \in 0..MaxWalk}
    /\ audio_files = <<>>
    /\ upos = 0
    /\ success_count = 0
    /\ upload_error_count = 0
    /\ last_upload = NoUpload
    /\ last_counted = "none"
    /\ upload_tags = <<>>
    /\ attempts = <<>>
    /\ ok_responses = 0
    /\ non2xx_responses = 0
    /\ returned = <<>>

NextBatch ==
    \/ Discover
    \/ UploadFile
    \/ FinishUpload

SpecBatch == InitBatch /\ [][NextBatch]_vars

-----------------------------------------------------------------------------
(* Properties of the rename tool, checked under SpecRename *)

\* the try block ran for the last entry the loop took
Tried == outcome \in {"copied", "error"}

\* the key at position i of the Tag Index contains the lower-cased base name
\* or is contained in it
SubstringRelated(i) ==
    \/ IsSubstring(name_tags_mapping[i].key, StrLower(base_name))
    \/ IsSubstring(StrLower(base_name), name_tags_mapping[i].key)

ExactKeys == {i \in 1..Len(name_tags_mapping) :
                 name_tags_mapping[i].key = StrLower(base_name)}

\* C4: the Matcher returns the tags of the key equal to the lower-cased base
\* name if there is one (even when an earlier key substring-matches); otherwise
\* the tags of the first key, in insertion order, that is a substring of the
\* lower-cased base name or has it as a substring; otherwise the empty list.
C4_MatcherResolution ==
    Tried =>
        /\ \A i \in ExactKeys : tags = name_tags_mapping[i].tags
        /\ ExactKeys = {} =>
             /\ \A i \in 1..Len(name_tags_mapping) :
                    (SubstringRelated(i) /\ \A j \in 1..(i - 1) : ~SubstringRelated(j))
                        => tags = name_tags_mapping[i].tags
             /\ (\A i \in 1..Len(name_tags_mapping) : ~SubstringRelated(i))
                    => tags = <<>>

\* two keys with different tags both substring-match, none is equal to the
\* name, and the file was renamed
C4_Witness ==
    /\ outcome = "copied"
    /\ ExactKeys = {}
    /\ \E i, j \in 1..Len(name_tags_mapping) :
          /\ i < j
          /\ SubstringRelated(i) /\ SubstringRelated(j)
          /\ name_tags_mapping[i].tags # name_tags_mapping[j].tags
          /\ tags = name_tags_mapping[i].tags

\* C5: the tags the Upload Client extracts from the file name the Renamer
\* produced (all bracketed groups, left to right) are the tags the Matcher
\* resolved for that file, in the same order.
C5_RoundTrip ==
    outcome = "copied" => ExtractTags(new_filename) = tags

\* C6: for a file name made of the prefix (any letter case), a title, bracketed
\* annotations and an extension, the base name is the title without
\* surrounding whitespace, no bracket is left in it, and the extension is
\* unchanged.
C6_NormalizationExact ==
    Tried =>
        \A sh \in Shapes :
            (sh.prefix # <<>> /\ sh.name = filename) =>
                /\ base_name = Strip(sh.title)
                /\ extension = sh.extension
                /\ \A i \in 1..Len(base_name) : base_name[i] \notin {"[", "]"}

AudioPositions ==
    {i \in 1..Len(dir) : dir[i].is_file /\ IsRenameAudio(dir[i].name)}

\* C7: after a run in which no copy raised, the destination holds exactly as
\* many files as the source directory has audio files, and the try block ran
\* for no other entry.
C7_ExactlyNOutputs ==
    (rpc = "done" /\ error_count = 0) =>
        /\ Cardinality(outputs) = Cardinality(AudioPositions)
        /\ attempted \subseteq AudioPositions

\* C8: the output file name is base_name + extension when the matched tag list
\* is empty, and base_name followed by " [t]" for each tag t, in the list's
\* order, and the extension otherwise; a copied file has that name in the
\* destination.
C8_OutputName ==
    Tried =>
        /\ tags = <<>> => new_filename = base_name \o extension
        /\ tags # <<>> =>
             new_filename =
                 base_name
                 \o Flatten([i \in 1..Len(tags) |-> <<" ", "[">> \o tags[i] \o <<"]">>])
                 \o extension
        /\ outcome = "copied" =>
             [name |-> new_filename, src |-> filename] \in outputs

\* a file was copied under a name that embeds two tags
C8_Witness ==
    /\ outcome = "copied"
    /\ Len(tags) = 2
    /\ tags[1] # tags[2]

-----------------------------------------------------------------------------
(* Properties of the upload tool *)

Sent(kind) == \E i \in 1..Len(requests) : requests[i] = kind

\* C1 (SpecUpload): once the CSRF fetch of Strategy A got a response whose
\* status is not 200, no sign-in and no callback request of Strategy A is ever
\* sent, Strategy B is the next step or has been made, and what login returns
\* is what login_direct returned.
C1_CsrfFailureFallsBack ==
    csrf_status \notin {0, 200} =>
        /\ ~Sent("signin")
        /\ ~Sent("callback")
        /\ upc = "login_direct" \/ Sent("direct")
        /\ upc # "login_direct" => login_result # Unset
        /\ login_result # Unset =>
             /\ direct_result # Unset
             /\ login_result = direct_result
             /\ token = direct_result

\* the CSRF fetch was refused and login still returned a token, from Strategy B
C1_Witness ==
    /\ csrf_status = 401
    /\ Sent("direct")
    /\ login_result = "tok"

\* C2 (SpecBatch): upload_directory passes every discovered file to upload_file
\* once, in discovery order, and returns counts that add up to the number of
\* files; with 5 responses of status 200/201 and 3 of a status outside 2xx
\* among 8 files it returns (5, 3).
C2_BatchAccounting ==
    upc = "done" =>
        /\ attempts = [i \in 1..Len(audio_files) |-> i]
        /\ returned[1] + returned[2] = Len(audio_files)
        /\ (ok_responses = 5 /\ non2xx_responses = 3 /\ Len(audio_files) = 8)
               => returned = <<5, 3>>

\* C3 (SpecBatch): an upload is counted as a success exactly when its response
\* has status 200 or 201, whatever the body; everything else is a failure.
C3_SuccessIffStatus ==
    last_counted # "none" =>
        (last_counted = "success"
            <=> (last_upload.kind = "response" /\ last_upload.status \in {200, 201}))

\* C9 (SpecUpload): when login was called and returned no credential, main has
\* stopped: no upload request was sent, upload_directory was not entered and
\* no session was saved.
C9_AuthFailureStopsRun ==
    (login_result # Unset /\ ~Truthy(login_result)) =>
        /\ upc = "exit_auth_failed"
        /\ ~Sent("upload")
        /\ audio_files = <<>>
        /\ returned = <<>>
        /\ ~saved

\* both strategies failed in a run that was asked to save the session and has
\* a file to upload
C9_Witness ==
    /\ login_result = None
    /\ Sent("csrf") /\ Sent("direct")
    /\ upc = "exit_auth_failed"
    /\ args.save_session
    /\ \E i \in 1..Len(walk) : IsUploadAudio(walk[i])

\* the session file gives no saved session: it is missing, cannot be opened or
\* unpickled, or holds no cookie whose name contains the marker
NoSavedSession(file) ==
    \/ file.state \in {"missing", "unreadable", "corrupt"}
    \/ \A i \in 1..Len(file.cookies) : ~HasMarker(file.cookies[i].name)

\* C10 (SpecUpload): with --load-session and a session file that gives no saved
\* session, the load block leaves main running without a token, and the next
\* step takes --session-token if given, else logs in with email/password if
\* given (else main ends with the usage error).
C10_LoadFailureFallsThrough ==
    [][ (args.load_session /\ NoSavedSession(session_file)) =>
          /\ upc = "load" => (upc' = "auth" /\ token' = None)
          /\ upc = "auth" =>
               /\ ~Truthy(token)
               /\ Truthy(args.session_token) =>
                    (upc' = "save" /\ token' = args.session_token)
               /\ (~Truthy(args.session_token) /\ args.credentials) =>
                    upc' = "login_csrf"
               /\ (~Truthy(args.session_token) /\ ~args.credentials) =>
                    upc' = "exit_usage"
      ]_vars

\* a corrupt session file was asked for and the run went on to log in
C10_Witness ==
    /\ args.load_session
    /\ session_file.state = "corrupt"
    /\ upc = "login_csrf"

\* C11 (SpecRename): every audio file the loop has taken is counted once, as
\* processed or as an error; an error does not end the loop; at the end every
\* audio file of the source directory was taken and rename_count + error_count
\* is their number.
C11_ErrorsCountedBatchContinues ==
    /\ rename_count + error_count = Cardinality(attempted)
    /\ outcome = "error" => error_count >= 1
    /\ rpc = "done" => pos = Len(dir)
    /\ rpc = "done" =>
         /\ attempted = AudioPositions
         /\ rename_count + error_count = Cardinality(AudioPositions)

\* a run that ended after a copy raised for one file and a later file was
\* still copied
C11_Witness ==
    /\ rpc = "done"
    /\ error_count >= 1
    /\ outcome = "copied"
    /\ Cardinality(AudioPositions) >= 2

\* C12 (SpecRename): after a run, whatever the output directory is, every
\* file the source directory held before the run is still there under its
\* name with its original bytes.
C12_SourcesUntouched ==
    rpc = "done" =>
        \A i \in 1..Len(dir) :
            dir[i].is_file =>
                [name |-> dir[i].name, src |-> dir[i].name] \in source

====
